---- MODULE Spec2Model ----
(***************************************************************************)
(* State-machine model of libbtcnet's connection handler                   *)
(* (CConnectionHandlerInt, src/unnamed/part_003) together with the DNS     *)
(* connection variant (CDNSConnection, src/src/dnsconn.cpp).               *)
(*                                                                         *)
(* The reactor thread is modelled by pc: "idle" between two reactor        *)
(* events, or the name of the embedder callback a handler is currently     *)
(* delivering.  A handler is cut into steps only at the callbacks it       *)
(* delivers, because the embedder runs its own code there (it may call     *)
(* Bind, StartConnection, CloseConnection, Shutdown from a callback).      *)
(***************************************************************************)
EXTENDS Integers, Sequences, FiniteSets, TLC

\* ------------------------------------------------------------------ bounds
\* ConnIDs 0 .. MaxConnIndex-1 can be allocated; every allocation is guarded.
MaxConnIndex == 3
\* Start(outgoing_limit) draws outgoing_limit from 1 .. MaxLimit.
MaxLimit == 1
\* OnNeedOutgoingConnections returns a list of at most MaxReturned entries.
MaxReturned == 2
\* A DNS response holds 1 .. MaxResolved addresses.
MaxResolved == 2

\* ------------------------------------------------------- program constants
g_max_simultaneous_connecting == 8
\* The largest size_t.  The program's value is 2^64-1; the model only needs a
\* value above every list length, and TLC's integers end at 2^31-1.
SIZE_MAX == 2147483647

\* "no ConnID": the id field of a callback that carries none
NoId == 0 - 1
ConnIDs == 0 .. (MaxConnIndex - 1)

\* CConnectionOptions::nRetries values offered by the embedder: -1 is
\* "retry forever", 1 allows one retry.
RetryChoices == {-1, 1}

\* CConnection as the handler reads it: IsSet(), IsDNS(), GetProxy().IsSet(),
\* GetOptions().doResolve == RESOLVE_ONLY, GetOptions().nRetries.
UnsetConn == [isSet |-> FALSE, isDNS |-> FALSE, proxy |-> FALSE,
              resolveOnly |-> FALSE, nRetries |-> 0]
AllConns == [isSet : {TRUE}, isDNS : BOOLEAN, proxy : BOOLEAN,
             resolveOnly : BOOLEAN, nRetries : RetryChoices]
\* The destinations the embedder offers: it asks for endless retries only for
\* a host name that it reaches without a proxy.
SetConns == {d \in AllConns : d.nRetries = -1 => (d.isDNS /\ ~d.proxy)}
CConnection == SetConns \cup {UnsetConn}

VARIABLES
    m_connection_index,     \* next ConnID
    m_connecting,           \* map ConnID -> ConnectionBase
    m_connected,            \* map ConnID -> ConnectionBase
    m_dns_resolves,         \* map ConnID -> CResolveOnly
    m_binds,                \* map ConnID -> CConnListener (key set)
    m_outgoing_conn_count,
    m_incoming_conn_count,
    m_outgoing_conn_limit,
    m_shutdown,
    m_event_base,           \* TRUE while the event base exists
    m_request_event,        \* TRUE while the request event exists
    m_shutdown_event,       \* "none" | "idle" | "active"
    pc,                     \* position of the reactor thread
    moved,                  \* the handler-local unique_ptr (moved / ptr)
    disconnecting,          \* ShutdownInt's local map
    cblog,                  \* history: callbacks delivered, per ConnID
    sd,                     \* history: what ShutdownInt found when it began
    refill,                 \* history: the refill cycle that just ran
    assert_failed           \* history: the last step failed an assert() of the code

vars == <<m_connection_index, m_connecting, m_connected, m_dns_resolves, m_binds,
          m_outgoing_conn_count, m_incoming_conn_count, m_outgoing_conn_limit,
          m_shutdown, m_event_base, m_request_event, m_shutdown_event,
          pc, moved, disconnecting, cblog, sd, refill, assert_failed>>

\* ------------------------------------------------------------- small helpers
EmptyMap == [k \in {} |-> NoId]
NoConn == [kind |-> "none"]
Idle == [at |-> "idle", id |-> NoId, flag |-> FALSE]
At(name, id, flag) == [at |-> name, id |-> id, flag |-> flag]
NoRefill == [ran |-> FALSE, need |-> 0, asked |-> FALSE]
NoSd == [ran |-> FALSE, established |-> {}, connecting |-> {}, emitted |-> 0]

Min(a, b) == IF a <= b THEN a ELSE b
MinOf(S) == CHOOSE x \in S : \A y \in S : x <= y
\* std::map emplace and erase
Forget(m, k, v) == m
Put(m, k, v) == [x \in DOMAIN m \cup {k} |-> IF x = k THEN v ELSE m[x]]
KeepEntry(m, k) == m
Erase(m, k) == [x \in DOMAIN m \ {k} |-> m[x]]

\* ConnectionBase::IsOutgoing of the variants
AlwaysOutgoing(c) == TRUE
IsOutgoing(c) == c.kind # "incoming"

\* The entries of a map that ShutdownInt and the counts treat as outgoing
NoneIn(m) == {}
OutgoingIn(m) == {k \in DOMAIN m : IsOutgoing(m[k])}
IncomingIn(m) == {k \in DOMAIN m : ~IsOutgoing(m[k])}

\* The callback log of the current Start/Shutdown cycle keeps one entry per
\* delivery, except that a re-armed lookup's failure repeated straight after
\* itself is kept once.  The data callbacks (OnReceiveMessages,
\* OnWriteBufferFull, OnWriteBufferReady) are not logged: pc shows them
\* while they are delivered.
Logged(log, id, name) ==
    [log EXCEPT ![id] = IF Len(@) > 0 /\ @[Len(@)] = name /\ name = "dns_failure_T"
                        THEN @ ELSE Append(@, name)]
NoLog == [i \in ConnIDs |-> <<>>]

Flag(b) == IF b THEN "T" ELSE "F"

Init ==
    /\ m_connection_index = 0
    /\ m_connecting = EmptyMap
    /\ m_connected = EmptyMap
    /\ m_dns_resolves = EmptyMap
    /\ m_binds = {}
    /\ m_outgoing_conn_count = 0
    /\ m_incoming_conn_count = 0
    /\ m_outgoing_conn_limit = 0
    /\ m_shutdown = FALSE
    /\ m_event_base = FALSE
    /\ m_request_event = FALSE
    /\ m_shutdown_event = "none"
    /\ pc = Idle
    /\ moved = NoConn
    /\ disconnecting = EmptyMap
    /\ cblog = NoLog
    /\ sd = NoSd
    /\ refill = NoRefill
    /\ assert_failed = FALSE
\* ------------------------------------------------------------ connections
\* A connection object.  obj is the object's identity (the ConnID it was
\* created under), m_id is ConnectionBase::m_id, st is what the object waits
\* for: "resolving" (m_request set), "connecting" (m_bev set, connect in
\* flight), "retry" (m_reconnect_func armed), "established", "closing"
\* (m_disconnect_func or m_disconnect_wait_func armed).
\* nres is m_resolved.size(), iter the index of m_iter (iter = nres is end()).
NewObject(kind, conn, id, st) ==
    [kind |-> kind, obj |-> id, m_id |-> id, nRetries |-> conn.nRetries,
     m_retries |-> conn.nRetries, st |-> st, nres |-> 0, iter |-> 0]

\* CDNSConnection::DoResolve: the asserts it makes, and m_request = Resolve(...)
DoResolveAsserts(c) == c.st \notin {"resolving", "connecting"} /\ c.nres = 0 /\ c.iter = c.nres
DoResolve(c) == [c EXCEPT !.st = "resolving"]

\* CDNSConnection::ConnectResolved with a bufferevent created: BareConnect
ConnectResolvedAsserts(c) == c.st # "connecting" /\ c.iter # c.nres /\ c.nres # 0
SkipConnect(c) == c
ConnectResolved(c) == [c EXCEPT !.st = "connecting"]

\* CDNSConnection::Connect: resolve when the cursor is at the end, else
\* connect to the address under the cursor.
ConnectAsserts(c) ==
    /\ c.st \notin {"resolving", "connecting"}
    /\ IF c.iter = c.nres THEN DoResolveAsserts(c) ELSE ConnectResolvedAsserts(c)
ConnectDNS(c) == IF c.iter = c.nres THEN DoResolve(c) ELSE ConnectResolved(c)

\* Connect() of the Direct and Proxy variants: a connect attempt is in flight.
ConnectBare(c) == [c EXCEPT !.st = "connecting"]

\* ConnectionBase::Retry(newId): the object takes the new id and arms its
\* reconnect event, which calls Connect().
KeepsOldId(c, newId) == [c EXCEPT !.st = "retry"]
Retry(c, newId) == [c EXCEPT !.m_id = newId, !.st = "retry"]

\* m_connection_index++
SameIndex(idx) == idx
NextIndex(idx) == idx + 1

\* The handler state StartConnection works on.
HState(idx, cing, res) == [idx |-> idx, connecting |-> cing, resolves |-> res]

\* CConnectionHandlerInt::StartConnection
StartConnectionOp(s, conn) ==
    LET id == s.idx IN
    IF conn.isDNS /\ conn.resolveOnly
    THEN IF conn.proxy
         THEN HState(NextIndex(id), s.connecting, s.resolves)
         ELSE HState(NextIndex(id), s.connecting,
                     Put(s.resolves, id, NewObject("resolveonly", conn, id, "resolving")))
    ELSE LET ptr == IF conn.proxy THEN ConnectBare(NewObject("proxy", conn, id, "new"))
                    ELSE IF conn.isDNS THEN ConnectDNS(NewObject("dns", conn, id, "new"))
                    ELSE ConnectBare(NewObject("direct", conn, id, "new"))
         IN HState(NextIndex(id), Put(s.connecting, id, ptr), s.resolves)

\* The loop of RequestOutgoingInt over the first n entries of conns.
RECURSIVE StartEach(_, _, _)
StartEach(s, conns, n) ==
    IF n = 0 THEN s
    ELSE LET before == StartEach(s, conns, n - 1) IN
         IF conns[n].isSet THEN StartConnectionOp(before, conns[n]) ELSE before

SetAmong(conns, n) == Cardinality({i \in 1..n : conns[i].isSet})

\* (size_t) of an int
ToSizeT(i) == IF i < 0 THEN SIZE_MAX + (i + 1) ELSE i

\* The ids a handler that is in the middle of a retry still has to allocate.
Reserve == IF pc.at \in {"disconnected", "connection_failure", "dns_failure", "proxy_failure"}
              /\ pc.flag THEN 1 ELSE 0
CanAlloc(n) == m_connection_index + n + Reserve <= MaxConnIndex

\* The reactor is between two events of a running event loop.
Running == pc = Idle /\ m_event_base /\ ~m_shutdown
\* The embedder's code runs on the reactor thread: inside a callback, or
\* between two PumpEvents calls.
OnEventThread == m_event_base

handlerVars == <<m_connection_index, m_connecting, m_connected, m_dns_resolves, m_binds,
                 m_outgoing_conn_count, m_incoming_conn_count>>
loopVars == <<m_outgoing_conn_limit, m_shutdown, m_event_base, m_request_event,
              m_shutdown_event>>
localVars == <<moved, disconnecting>>
histVars == <<cblog, sd>>
\* The step fails no assert of the code.
AssertsHold == assert_failed' = FALSE

\* --------------------------------------------------------------- operations
\* CConnectionHandlerInt::Start, up to the OnStartup callback
Start(outgoing_limit) ==
    /\ pc = Idle
    /\ ~m_event_base
    /\ m_shutdown' = FALSE
    /\ assert_failed' = (m_outgoing_conn_count # 0 \/ m_incoming_conn_count # 0)
    /\ m_outgoing_conn_limit' = outgoing_limit
    /\ m_event_base' = TRUE
    /\ m_request_event' = TRUE
    /\ m_shutdown_event' = "idle"
    /\ pc' = At("startup", NoId, FALSE)
    /\ sd' = NoSd
    /\ cblog' = NoLog
    /\ refill' = NoRefill
    /\ UNCHANGED <<handlerVars, localVars>>

\* Start after OnStartup returned: m_request_event.active()
StartReturn ==
    /\ pc.at = "startup"
    /\ pc' = Idle
    /\ refill' = NoRefill
    /\ UNCHANGED <<handlerVars, loopVars, localVars, histVars>>
    /\ AssertsHold

\* if (ret) m_binds.emplace_hint(m_binds.end(), id, std::move(listener))
AlwaysRecorded(binds, id, ret) == binds \cup {id}
Recorded(binds, id, ret) == IF ret THEN binds \cup {id} ELSE binds

\* CConnectionHandlerInt::Bind, called by the embedder on the reactor thread;
\* ret is the result of CConnListener::Bind, and the result of the call.
Bind(ret) ==
    /\ OnEventThread
    /\ CanAlloc(1)
    /\ m_connection_index' = NextIndex(m_connection_index)
    /\ m_binds' = Recorded(m_binds, m_connection_index, ret)
    /\ refill' = NoRefill
    /\ UNCHANGED <<m_connecting, m_connected, m_dns_resolves, m_outgoing_conn_count,
                   m_incoming_conn_count, loopVars, localVars, histVars, pc>>
    /\ AssertsHold

\* CConnectionHandlerInt::StartConnection, called by the embedder
StartConnection(conn) ==
    /\ OnEventThread
    /\ CanAlloc(1)
    /\ LET s == StartConnectionOp(HState(m_connection_index, m_connecting, m_dns_resolves), conn)
       IN /\ m_connection_index' = s.idx
          /\ m_connecting' = s.connecting
          /\ m_dns_resolves' = s.resolves
    /\ refill' = NoRefill
    /\ UNCHANGED <<m_connected, m_binds, m_outgoing_conn_count, m_incoming_conn_count,
                   loopVars, localVars, histVars, pc>>
    /\ AssertsHold

\* What RequestOutgoingInt asks for
Need == ToSizeT(Min(g_max_simultaneous_connecting,
                    m_outgoing_conn_limit - m_outgoing_conn_count
                        - Cardinality(DOMAIN m_connecting)))

\* CConnectionHandlerInt::RequestOutgoingInt; conns is what the embedder
\* returns from OnNeedOutgoingConnections(need), and the cycle hands out
\* ConnIDs below maxIndex.
RequestOutgoing(conns, maxIndex) ==
    /\ Running
    /\ m_request_event
    /\ LET need == Need
           n == Min(Len(conns), need)
       IN IF need > 0
          THEN /\ m_connection_index + SetAmong(conns, n) <= maxIndex
               /\ LET s == StartEach(HState(m_connection_index, m_connecting, m_dns_resolves),
                                     conns, n)
                  IN /\ m_connection_index' = s.idx
                     /\ m_connecting' = s.connecting
                     /\ m_dns_resolves' = s.resolves
               /\ refill' = [ran |-> TRUE, need |-> need, asked |-> TRUE]
          ELSE /\ conns = <<>>
               /\ refill' = [ran |-> TRUE, need |-> need, asked |-> FALSE]
               /\ UNCHANGED <<m_connection_index, m_connecting, m_dns_resolves>>
    /\ UNCHANGED <<m_connected, m_binds, m_outgoing_conn_count, m_incoming_conn_count,
                   loopVars, localVars, histVars, pc>>
    /\ AssertsHold

RequestOutgoingInt(conns) == RequestOutgoing(conns, MaxConnIndex)

\* ------------------------------------------------- handlers of the reactor
\* CConnectionHandlerInt::OnOutgoingConnected, up to OnOutgoingConnection:
\* the object c leaves m_connecting and enters m_connected under the same id.
OnOutgoingConnected(id, c) ==
    /\ m_connecting' = Erase(m_connecting, id)
    /\ m_connected' = Put(m_connected, id, [c EXCEPT !.st = "established"])
    /\ pc' = At("outgoing_connection", id, FALSE)
    /\ cblog' = Logged(cblog, id, "outgoing_connection")
    /\ refill' = NoRefill
    /\ UNCHANGED <<m_connection_index, m_dns_resolves, m_binds, m_outgoing_conn_count,
                   m_incoming_conn_count, loopVars, localVars, sd>>

\* ... OnOutgoingConnection returned: OnReadyForFirstSend
OutgoingConnectionReturn ==
    /\ pc.at = "outgoing_connection"
    /\ pc' = At("ready_for_first_send", pc.id, FALSE)
    /\ cblog' = Logged(cblog, pc.id, "ready_for_first_send")
    /\ refill' = NoRefill
    /\ UNCHANGED <<handlerVars, loopVars, localVars, sd>>
    /\ AssertsHold

\* m_outgoing_conn_count++
NoIncrement(count) == count
Increment(count) == count + 1

\* ... OnReadyForFirstSend returned: m_outgoing_conn_count++
ReadyForFirstSendReturn ==
    /\ pc.at = "ready_for_first_send"
    /\ m_outgoing_conn_count' = Increment(m_outgoing_conn_count)
    /\ pc' = Idle
    /\ refill' = NoRefill
    /\ UNCHANGED <<m_connection_index, m_connecting, m_connected, m_dns_resolves, m_binds,
                   m_incoming_conn_count, loopVars, localVars, histVars>>
    /\ AssertsHold

\* The callback OnConnectionFailure delivers for a failure type
FailureCallback(ftype) ==
    IF ftype = "PROXY" THEN "proxy_failure"
    ELSE IF ftype = "RESOLVE" THEN "dns_failure" ELSE "connection_failure"
FailureCallbacks == {"proxy_failure", "dns_failure", "connection_failure"}

\* CConnectionHandlerInt::OnConnectionFailure, up to the failure callback:
\* the object c (already updated by its variant) leaves m_connecting.
OnConnectionFailure(id, c, ftype, retry) ==
    LET r == retry /\ ~m_shutdown IN
    /\ r => CanAlloc(1)
    /\ m_connecting' = Erase(m_connecting, id)
    /\ moved' = c
    /\ pc' = At(FailureCallback(ftype), id, r)
    /\ cblog' = Logged(cblog, id, "failure_" \o Flag(r))
    /\ refill' = NoRefill
    /\ UNCHANGED <<m_connection_index, m_connected, m_dns_resolves, m_binds,
                   m_outgoing_conn_count, m_incoming_conn_count, loopVars,
                   disconnecting, sd>>

\* The id a retried object is re-inserted under
ReuseId(oldId) == oldId
RetryId(oldId) == m_connection_index

\* m_connecting.emplace_hint(m_connecting.end(), newId, std::move(moved)) and
\* Retry(newId) on the entry
DropInstead(cing, newId, ptr) == cing
Reinsert(cing, newId, ptr) == Put(cing, newId, Retry(ptr, newId))

\* ... the failure callback returned: retry under a new id, or drop
ConnectionFailureReturn ==
    /\ pc.at \in FailureCallbacks
    /\ IF pc.flag /\ ~m_shutdown
       THEN LET newId == RetryId(pc.id) IN
            /\ m_connection_index' = NextIndex(m_connection_index)
            /\ m_connecting' = Reinsert(m_connecting, newId, moved)
       ELSE UNCHANGED <<m_connection_index, m_connecting>>
    /\ moved' = NoConn
    /\ pc' = Idle
    /\ refill' = NoRefill
    /\ UNCHANGED <<m_connected, m_dns_resolves, m_binds, m_outgoing_conn_count,
                   m_incoming_conn_count, loopVars, disconnecting, histVars>>
    /\ AssertsHold

\* reconnect = reconnect && !m_shutdown
ReconnectsAnyway(reconnect, shutdown) == TRUE
ReconnectFlag(reconnect, shutdown) == reconnect /\ ~shutdown

\* CConnectionHandlerInt::OnDisconnected, up to the OnDisconnected callback
OnDisconnected(id, reconnect) ==
    LET r == ReconnectFlag(reconnect, m_shutdown)
        c == m_connected[id] IN
    /\ r => CanAlloc(1)
    /\ moved' = c
    /\ m_connected' = Erase(m_connected, id)
    /\ IF IsOutgoing(c)
       THEN /\ m_outgoing_conn_count' = m_outgoing_conn_count - 1
            /\ UNCHANGED m_incoming_conn_count
       ELSE /\ m_incoming_conn_count' = m_incoming_conn_count - 1
            /\ UNCHANGED m_outgoing_conn_count
    /\ pc' = At("disconnected", id, r)
    /\ cblog' = Logged(cblog, id, "disconnected_" \o Flag(r))
    /\ refill' = NoRefill
    /\ UNCHANGED <<m_connection_index, m_connecting, m_dns_resolves, m_binds, loopVars,
                   disconnecting, sd>>
    /\ AssertsHold

\* ... OnDisconnected returned: reconnect under a new id, or drop
DisconnectedReturn ==
    /\ pc.at = "disconnected"
    /\ IF pc.flag
       THEN LET newId == RetryId(pc.id) IN
            /\ m_connection_index' = NextIndex(m_connection_index)
            /\ m_connecting' = Reinsert(m_connecting, newId, moved)
       ELSE UNCHANGED <<m_connection_index, m_connecting>>
    /\ moved' = NoConn
    /\ pc' = Idle
    /\ refill' = NoRefill
    /\ UNCHANGED <<m_connected, m_dns_resolves, m_binds, m_outgoing_conn_count,
                   m_incoming_conn_count, loopVars, disconnecting, histVars>>
    /\ AssertsHold

\* CConnectionHandlerInt::OnIncomingConnection: a listener accepted a socket.
\* The new object is put into m_connecting and Connect() is called, which
\* completes at once and runs OnIncomingConnected up to the embedder's
\* OnIncomingConnection callback: the object is out of m_connecting again.
OnIncomingConnection(bind) ==
    /\ Running
    /\ bind \in m_binds
    /\ CanAlloc(1)
    /\ LET id == m_connection_index IN
       /\ m_connection_index' = NextIndex(m_connection_index)
       /\ moved' = NewObject("incoming", UnsetConn, id, "new")
       /\ pc' = At("incoming_connection", id, FALSE)
       /\ cblog' = Logged(cblog, id, "incoming_connection")
    /\ refill' = NoRefill
    /\ UNCHANGED <<m_connecting, m_connected, m_dns_resolves, m_binds, m_outgoing_conn_count,
                   m_incoming_conn_count, loopVars, disconnecting, sd>>
    /\ AssertsHold

\* ... the embedder answered OnIncomingConnection
IncomingConnectionReturn(accept) ==
    /\ pc.at = "incoming_connection"
    /\ IF accept
       THEN /\ m_connected' = Put(m_connected, pc.id, [moved EXCEPT !.st = "established"])
            /\ m_incoming_conn_count' = m_incoming_conn_count + 1
       ELSE UNCHANGED <<m_connected, m_incoming_conn_count>>
    /\ moved' = NoConn
    /\ pc' = Idle
    /\ refill' = NoRefill
    /\ UNCHANGED <<m_connection_index, m_connecting, m_dns_resolves, m_binds,
                   m_outgoing_conn_count, loopVars, disconnecting, histVars>>
    /\ AssertsHold

\* CConnectionHandlerInt::OnReceiveMessages, OnWriteBufferFull and
\* OnWriteBufferReady: each only delivers its callback for the id ("data").
OnData(id) ==
    /\ Running
    /\ id \in DOMAIN m_connected
    /\ pc' = At("data", id, FALSE)
    /\ refill' = NoRefill
    /\ UNCHANGED <<handlerVars, loopVars, localVars, histVars>>
    /\ AssertsHold

DataReturn ==
    /\ pc.at = "data"
    /\ pc' = Idle
    /\ refill' = NoRefill
    /\ UNCHANGED <<handlerVars, loopVars, localVars, histVars>>
    /\ AssertsHold

\* CConnectionHandlerInt::OnListenFailure, up to OnBindFailure
OnListenFailure(id) ==
    /\ Running
    /\ id \in m_binds
    /\ pc' = At("bind_failure", id, FALSE)
    /\ refill' = NoRefill
    /\ UNCHANGED <<handlerVars, loopVars, localVars, histVars>>
    /\ AssertsHold

\* ... OnBindFailure returned: m_binds.erase(id)
BindFailureReturn ==
    /\ pc.at = "bind_failure"
    /\ m_binds' = m_binds \ {pc.id}
    /\ pc' = Idle
    /\ refill' = NoRefill
    /\ UNCHANGED <<m_connection_index, m_connecting, m_connected, m_dns_resolves,
                   m_outgoing_conn_count, m_incoming_conn_count, loopVars, localVars,
                   histVars>>
    /\ AssertsHold

\* ------------------------------------------------ events of the variants
\* The retry decision of CDNSConnection::OnResolveFailure,
\*   m_retries > 0 ? m_retries-- : m_retries != 0
ResolveRetryFlag(m_retries) == IF m_retries > 0 THEN m_retries # 0 ELSE m_retries # 0
KeepRetries(m_retries) == m_retries
ResolveRetryLeft(m_retries) == IF m_retries > 0 THEN m_retries - 1 ELSE m_retries

\* CDNSConnection::ConnectionFailure: ++m_iter != m_resolved.end() || m_retries != 0
RetriesOnly(c) == c.m_retries # 0
ConnectionFailureFlag(c) == (c.iter + 1 # c.nres) \/ c.m_retries # 0
ConnectionFailureObject(c) == [c EXCEPT !.iter = c.iter + 1, !.st = "none"]
ConnectionFailureAsserts(c) == c.iter # c.nres /\ c.nres # 0

\* The retry decision of the Direct and Proxy variants
DirectRetryFlag(m_retries) == m_retries > 0 \/ m_retries = -1
DirectRetryLeft(m_retries) == IF m_retries > 0 THEN m_retries - 1 ELSE m_retries

\* CDNSConnection::OnResolveFailure
DnsOnResolveFailure(id) ==
    /\ Running
    /\ id \in DOMAIN m_connecting
    /\ LET c == m_connecting[id] IN
       /\ c.kind = "dns" /\ c.st = "resolving"
       /\ assert_failed' = (~(c.nres = 0 /\ c.iter = c.nres))
       /\ OnConnectionFailure(id, [c EXCEPT !.st = "none",
                                            !.m_retries = ResolveRetryLeft(c.m_retries)],
                              "RESOLVE", ResolveRetryFlag(c.m_retries))

\* CDNSConnection::OnResolveSuccess with n addresses; bevOk tells whether
\* ConnectResolved could create its bufferevent.
DnsOnResolveSuccess(id, n, bevOk) ==
    /\ Running
    /\ id \in DOMAIN m_connecting
    /\ LET c == m_connecting[id]
           got == [c EXCEPT !.nres = n, !.iter = 0, !.st = "none"] IN
       /\ c.kind = "dns" /\ c.st = "resolving"
       /\ assert_failed' = (~(c.nres = 0 /\ c.iter = c.nres))
       /\ IF bevOk
          THEN /\ m_connecting' = [m_connecting EXCEPT ![id] = ConnectResolved(got)]
               /\ refill' = NoRefill
               /\ UNCHANGED <<m_connection_index, m_connected, m_dns_resolves, m_binds,
                              m_outgoing_conn_count, m_incoming_conn_count, loopVars,
                              localVars, pc, cblog, sd>>
          ELSE OnConnectionFailure(id, ConnectionFailureObject(got), "CONNECT",
                                   ConnectionFailureFlag(got))

\* CDNSConnection::OnConnectSuccess
DnsOnConnectSuccess(id) ==
    /\ Running
    /\ id \in DOMAIN m_connecting
    /\ LET c == m_connecting[id] IN
       /\ c.kind = "dns" /\ c.st = "connecting"
       /\ assert_failed' = (~ConnectionFailureAsserts(c))
       /\ OnOutgoingConnected(id, [c EXCEPT !.nres = 0, !.iter = 0,
                                            !.m_retries = c.nRetries])

\* CDNSConnection::OnConnectFailure
DnsOnConnectFailure(id) ==
    /\ Running
    /\ id \in DOMAIN m_connecting
    /\ LET c == m_connecting[id] IN
       /\ c.kind = "dns" /\ c.st = "connecting"
       /\ assert_failed' = (~ConnectionFailureAsserts(c))
       /\ OnConnectionFailure(id, ConnectionFailureObject(c), "CONNECT",
                              ConnectionFailureFlag(c))

\* Connect success of the Direct and Proxy variants
DirectOnConnectSuccess(id) ==
    /\ Running
    /\ id \in DOMAIN m_connecting
    /\ LET c == m_connecting[id] IN
       /\ c.kind \in {"direct", "proxy"} /\ c.st = "connecting"
       /\ AssertsHold
       /\ OnOutgoingConnected(id, c)

\* Connect failure of the Direct and Proxy variants
DirectOnConnectFailure(id, ftype) ==
    /\ Running
    /\ id \in DOMAIN m_connecting
    /\ LET c == m_connecting[id] IN
       /\ c.kind \in {"direct", "proxy"} /\ c.st = "connecting"
       /\ ftype = "PROXY" => c.kind = "proxy"
       /\ AssertsHold
       /\ OnConnectionFailure(id, [c EXCEPT !.st = "none",
                                            !.m_retries = DirectRetryLeft(c.m_retries)],
                              ftype, DirectRetryFlag(c.m_retries))

\* The reconnect event armed by Retry fires: Connect()
ReconnectTimer(id, bevOk) ==
    /\ Running
    /\ id \in DOMAIN m_connecting
    /\ LET c == m_connecting[id] IN
       /\ c.st = "retry"
       /\ IF c.kind = "dns"
          THEN /\ assert_failed' = (~ConnectAsserts(c))
               /\ IF bevOk \/ c.iter = c.nres
                  THEN /\ bevOk
                       /\ m_connecting' = [m_connecting EXCEPT ![id] = ConnectDNS(c)]
                       /\ refill' = NoRefill
                       /\ UNCHANGED <<m_connection_index, m_connected, m_dns_resolves,
                                      m_binds, m_outgoing_conn_count, m_incoming_conn_count,
                                      loopVars, localVars, pc, cblog, sd>>
                  ELSE OnConnectionFailure(id, ConnectionFailureObject(c), "CONNECT",
                                           ConnectionFailureFlag(c))
          ELSE /\ bevOk
               /\ m_connecting' = [m_connecting EXCEPT ![id] = ConnectBare(c)]
               /\ refill' = NoRefill
               /\ UNCHANGED <<m_connection_index, m_connected, m_dns_resolves, m_binds,
                              m_outgoing_conn_count, m_incoming_conn_count, loopVars,
                              localVars, pc, histVars>>
               /\ AssertsHold

\* A connection in m_connected ends: ConnectionBase::OnDisconnected calls the
\* handler.  A close asked for by CloseConnection never reconnects, and an
\* incoming connection is never reconnected.
Disconnected(id, reconnect) ==
    /\ Running
    /\ id \in DOMAIN m_connected
    /\ reconnect => (IsOutgoing(m_connected[id]) /\ m_connected[id].st = "established")
    /\ OnDisconnected(id, reconnect)

\* ------------------------------------------------------- resolve-only lookups
\* CConnectionHandlerInt::OnResolveComplete, up to OnDnsResponse
OnResolveComplete(id) ==
    /\ Running
    /\ id \in DOMAIN m_dns_resolves
    /\ pc' = At("dns_response", id, FALSE)
    /\ cblog' = Logged(cblog, id, "dns_response")
    /\ refill' = NoRefill
    /\ UNCHANGED <<handlerVars, loopVars, localVars, sd>>
    /\ AssertsHold

\* ... OnDnsResponse returned: m_dns_resolves.erase(id)
DnsResponseReturn ==
    /\ pc.at = "dns_response"
    /\ m_dns_resolves' = Erase(m_dns_resolves, pc.id)
    /\ pc' = Idle
    /\ refill' = NoRefill
    /\ UNCHANGED <<m_connection_index, m_connecting, m_connected, m_binds,
                   m_outgoing_conn_count, m_incoming_conn_count, loopVars, localVars,
                   histVars>>
    /\ AssertsHold

\* CConnectionHandlerInt::OnResolveFailure, up to OnDnsFailure; the lookup
\* decides retry like the other variants do.
OnResolveFailure(id) ==
    /\ Running
    /\ id \in DOMAIN m_dns_resolves
    /\ LET c == m_dns_resolves[id]
           r == DirectRetryFlag(c.m_retries) /\ ~m_shutdown IN
       /\ m_dns_resolves' = [m_dns_resolves EXCEPT
                                ![id].m_retries = DirectRetryLeft(c.m_retries)]
       /\ pc' = At("ro_dns_failure", id, r)
       /\ cblog' = Logged(cblog, id, "dns_failure_" \o Flag(r))
    /\ refill' = NoRefill
    /\ UNCHANGED <<m_connection_index, m_connecting, m_connected, m_binds,
                   m_outgoing_conn_count, m_incoming_conn_count, loopVars, localVars,
                   sd>>
    /\ AssertsHold

\* if (retry) it->second->Retry(); else m_dns_resolves.erase(it);
AlwaysErased(resolves, id, retry) == Erase(resolves, id)
RetryOrErase(resolves, id, retry) == IF retry THEN resolves ELSE Erase(resolves, id)

\* ... OnDnsFailure returned: Retry() the lookup under its id, or erase it
DnsFailureReturn ==
    /\ pc.at = "ro_dns_failure"
    /\ assert_failed' = (pc.id \notin DOMAIN m_dns_resolves)
    /\ m_dns_resolves' = RetryOrErase(m_dns_resolves, pc.id, pc.flag)
    /\ pc' = Idle
    /\ refill' = NoRefill
    /\ UNCHANGED <<m_connection_index, m_connecting, m_connected, m_binds,
                   m_outgoing_conn_count, m_incoming_conn_count, loopVars, localVars,
                   cblog, sd>>

\* ------------------------------------------------------------------ shutdown
\* CConnectionHandlerInt::Shutdown, from any thread: m_shutdown_event.active()
Shutdown ==
    /\ m_shutdown_event = "idle"
    /\ m_shutdown_event' = "active"
    /\ refill' = NoRefill
    /\ UNCHANGED <<handlerVars, m_outgoing_conn_limit, m_shutdown, m_event_base,
                   m_request_event, localVars, histVars, pc>>
    /\ AssertsHold

\* The loops of ShutdownInt from the map contents dis (disconnecting) and
\* cing (m_connecting), up to the next callback they deliver, and, when both
\* are done, the rest of ShutdownInt and, with whole, of PumpEvents up to
\* OnShutdown; without whole the step ends where ShutdownInt returns.
ShutdownLoopsTo(dis, cing, whole) ==
    IF DOMAIN dis # {}
    THEN LET id == MinOf(DOMAIN dis) IN
         /\ IF IsOutgoing(dis[id])
            THEN /\ m_outgoing_conn_count' = m_outgoing_conn_count - 1
                 /\ UNCHANGED m_incoming_conn_count
            ELSE /\ m_incoming_conn_count' = m_incoming_conn_count - 1
                 /\ UNCHANGED m_outgoing_conn_count
         /\ disconnecting' = dis
         /\ m_connecting' = cing
         /\ pc' = At("sd_disconnected", id, FALSE)
         /\ cblog' = Logged(cblog, id, "disconnected_F")
         /\ AssertsHold
         /\ UNCHANGED <<m_dns_resolves, m_event_base, m_request_event, m_shutdown_event>>
    ELSE IF OutgoingIn(cing) # {}
    THEN LET id == MinOf(OutgoingIn(cing)) IN
         /\ m_connecting' = [k \in {x \in DOMAIN cing : x >= id} |-> cing[k]]
         /\ disconnecting' = dis
         /\ pc' = At("sd_failure", id, FALSE)
         /\ cblog' = Logged(cblog, id, "failure_F")
         /\ UNCHANGED <<m_dns_resolves, m_event_base, m_request_event, m_shutdown_event,
                        m_outgoing_conn_count, m_incoming_conn_count>>
         /\ AssertsHold
    ELSE /\ m_connecting' = EmptyMap
         /\ disconnecting' = dis
         /\ m_dns_resolves' = EmptyMap
         /\ m_request_event' = FALSE
         /\ m_shutdown_event' = "none"
         /\ assert_failed' = (DOMAIN m_connected' # {}
                                \/ m_outgoing_conn_count # 0 \/ m_incoming_conn_count # 0)
         /\ m_event_base' = (~whole)
         /\ pc' = At(IF whole THEN "shutdown" ELSE "loopbreak", NoId, FALSE)
         /\ UNCHANGED <<cblog, m_outgoing_conn_count, m_incoming_conn_count>>

ShutdownLoops(dis, cing) == ShutdownLoopsTo(dis, cing, TRUE)

\* CConnectionHandlerInt::ShutdownInt, the shutdown event's callback
ShutdownIntTo(whole) ==
    /\ pc = Idle
    /\ m_event_base
    /\ m_shutdown_event = "active"
    /\ ~m_shutdown
    /\ m_connected' = EmptyMap
    /\ m_binds' = {}
    /\ m_shutdown' = TRUE
    /\ sd' = [ran |-> TRUE, established |-> DOMAIN m_connected,
              connecting |-> {k \in DOMAIN m_connecting :
                                  m_connecting[k].kind # "incoming"},
              emitted |-> 0]
    /\ ShutdownLoopsTo(m_connected, m_connecting, whole)
    /\ moved' = NoConn
    /\ refill' = NoRefill
    /\ UNCHANGED <<m_connection_index, m_outgoing_conn_limit>>

ShutdownInt == ShutdownIntTo(TRUE)

\* ... OnDisconnected(id, false) returned: disconnecting.erase(iter++)
ShutdownDisconnectedReturnTo(whole) ==
    /\ pc.at = "sd_disconnected"
    /\ UNCHANGED <<m_connection_index, m_connected, m_binds, m_outgoing_conn_limit,
                   m_shutdown, moved, sd>>
    /\ ShutdownLoopsTo(Erase(disconnecting, pc.id), m_connecting, whole)
    /\ refill' = NoRefill

ShutdownDisconnectedReturn == ShutdownDisconnectedReturnTo(TRUE)

\* ... OnConnectionFailure(conn, conn, false) returned: m_connecting.erase(iter++)
ShutdownFailureReturnTo(whole) ==
    /\ pc.at = "sd_failure"
    /\ UNCHANGED <<m_connection_index, m_connected, m_binds, m_outgoing_conn_limit,
                   m_shutdown, moved, sd>>
    /\ ShutdownLoopsTo(disconnecting, Erase(m_connecting, pc.id), whole)
    /\ refill' = NoRefill

ShutdownFailureReturn == ShutdownFailureReturnTo(TRUE)

\* ... PumpEvents after OnShutdown returned
ShutdownReturn ==
    /\ pc.at = "shutdown"
    /\ pc' = Idle
    /\ sd' = [sd EXCEPT !.emitted = 1]
    /\ refill' = NoRefill
    /\ UNCHANGED <<handlerVars, loopVars, localVars, cblog>>
    /\ AssertsHold

\* What CConnectionHandlerInt::PumpEvents returns: base and shutdownAtEntry are
\* m_event_base and m_shutdown when it is called, shutdownAfterLoop is
\* m_shutdown when event_base_loop has returned.
NeverStops(base, shutdownAtEntry, shutdownAfterLoop) == TRUE
PumpEvents(base, shutdownAtEntry, shutdownAfterLoop) ==
    IF ~base THEN FALSE
    ELSE IF shutdownAtEntry THEN FALSE
    ELSE IF shutdownAfterLoop THEN FALSE
    ELSE TRUE

\* m_connected.find(id) != m_connected.end()
FindAny(m, id) == TRUE
Find(m, id) == id \in DOMAIN m

\* What CConnectionHandlerInt::Send can return: false for an id it does not
\* find, else what the connection's Write returns.
SendResults(id) == IF Find(m_connected, id) THEN BOOLEAN ELSE {FALSE}

\* CConnectionHandlerInt::Send, from any thread: Write on the entry it finds
\* queues bytes on the connection and touches no member of the handler.
Send(id, ret) ==
    /\ ret \in SendResults(id)
    /\ refill' = NoRefill
    /\ UNCHANGED <<handlerVars, loopVars, localVars, histVars, pc>>
    /\ AssertsHold

\* CConnectionHandlerInt::PauseRecv, from any thread
PauseRecv(id) ==
    /\ refill' = NoRefill
    /\ UNCHANGED <<handlerVars, loopVars, localVars, histVars, pc>>
    /\ AssertsHold

\* CConnectionHandlerInt::UnpauseRecv, from any thread
UnpauseRecv(id) ==
    /\ refill' = NoRefill
    /\ UNCHANGED <<handlerVars, loopVars, localVars, histVars, pc>>
    /\ AssertsHold

\* CConnectionHandlerInt::SetRateLimit, from any thread
SetRateLimit(id) ==
    /\ refill' = NoRefill
    /\ UNCHANGED <<handlerVars, loopVars, localVars, histVars, pc>>
    /\ AssertsHold

\* CConnectionHandlerInt::CloseConnection, from any thread: Disconnect() or
\* DisconnectWhenFinished() on the entry; either arms the object's close.
CloseConnection(id, immediately) ==
    /\ m_connected' = IF Find(m_connected, id)
                      THEN [m_connected EXCEPT ![id].st = "closing"]
                      ELSE m_connected
    /\ refill' = NoRefill
    /\ UNCHANGED <<m_connection_index, m_connecting, m_dns_resolves, m_binds,
                   m_outgoing_conn_count, m_incoming_conn_count, loopVars, localVars,
                   histVars, pc>>
    /\ AssertsHold

\* ------------------------------------------------------------ specification
ReturnedLists == UNION {[1..n -> CConnection] : n \in 0..MaxReturned}

Next ==
    \/ \E l \in 1..MaxLimit : Start(l)
    \/ StartReturn
    \/ \E ret \in BOOLEAN : Bind(ret)
    \/ \E conn \in SetConns : StartConnection(conn)
    \/ \E conns \in ReturnedLists : RequestOutgoingInt(conns)
    \/ OutgoingConnectionReturn
    \/ ReadyForFirstSendReturn
    \/ ConnectionFailureReturn
    \/ DisconnectedReturn
    \/ \E b \in ConnIDs : OnIncomingConnection(b)
    \/ \E accept \in BOOLEAN : IncomingConnectionReturn(accept)
    \/ \E id \in ConnIDs : OnData(id)
    \/ DataReturn
    \/ \E id \in ConnIDs : OnListenFailure(id)
    \/ BindFailureReturn
    \/ \E id \in ConnIDs : DnsOnResolveFailure(id)
    \/ \E id \in ConnIDs, n \in 1..MaxResolved, bevOk \in BOOLEAN : DnsOnResolveSuccess(id, n, bevOk)
    \/ \E id \in ConnIDs : DnsOnConnectSuccess(id)
    \/ \E id \in ConnIDs : DnsOnConnectFailure(id)
    \/ \E id \in ConnIDs : DirectOnConnectSuccess(id)
    \/ \E id \in ConnIDs, ftype \in {"CONNECT", "PROXY"} : DirectOnConnectFailure(id, ftype)
    \/ \E id \in ConnIDs, bevOk \in BOOLEAN : ReconnectTimer(id, bevOk)
    \/ \E id \in ConnIDs, reconnect \in BOOLEAN : Disconnected(id, reconnect)
    \/ \E id \in ConnIDs : OnResolveComplete(id)
    \/ DnsResponseReturn
    \/ \E id \in ConnIDs : OnResolveFailure(id)
    \/ DnsFailureReturn
    \/ Shutdown
    \/ ShutdownInt
    \/ ShutdownDisconnectedReturn
    \/ ShutdownFailureReturn
    \/ ShutdownReturn
    \/ \E id \in ConnIDs, immediately \in BOOLEAN : CloseConnection(id, immediately)
    \/ \E id \in ConnIDs, ret \in BOOLEAN : Send(id, ret)
    \/ \E id \in ConnIDs : PauseRecv(id)
    \/ \E id \in ConnIDs : UnpauseRecv(id)
    \/ \E id \in ConnIDs : SetRateLimit(id)

Spec == Init /\ [][Next]_vars

\* ------------------------------------------------------------------ fairness
\* The embedder's callbacks return.
CallbackReturns ==
    \/ StartReturn
    \/ OutgoingConnectionReturn
    \/ ReadyForFirstSendReturn
    \/ ConnectionFailureReturn
    \/ DisconnectedReturn
    \/ \E accept \in BOOLEAN : IncomingConnectionReturn(accept)
    \/ DataReturn
    \/ BindFailureReturn
    \/ DnsResponseReturn
    \/ DnsFailureReturn
    \/ ShutdownDisconnectedReturn
    \/ ShutdownFailureReturn
    \/ ShutdownReturn

\* The event a connection in m_connecting waits for: its reconnect timer, the
\* answer to its lookup, or the outcome of its connect attempt.
ConnectingEvent(id) ==
    \/ \E bevOk \in BOOLEAN : ReconnectTimer(id, bevOk)
    \/ DnsOnResolveFailure(id)
    \/ \E n \in 1..MaxResolved, bevOk \in BOOLEAN : DnsOnResolveSuccess(id, n, bevOk)
    \/ DnsOnConnectSuccess(id)
    \/ DnsOnConnectFailure(id)
    \/ DirectOnConnectSuccess(id)
    \/ \E ftype \in {"CONNECT", "PROXY"} : DirectOnConnectFailure(id, ftype)

\* event_base_loop runs every active event before it polls again, and timers
\* and connect attempts end: an event that is pending each time the reactor is
\* idle is dispatched.
FairSpec ==
    /\ Init /\ [][Next]_vars
    /\ WF_vars(CallbackReturns)
    /\ \A id \in ConnIDs : SF_vars(ConnectingEvent(id))

\* ---------------------------------------------------- the retry policy alone
\* CConnectionOptions::nRetries over its sign cases: two negative values, zero
\* and two positive ones.
RetryValues == {-2, -1, 0, 1, 2}

\* Destinations the embedder connects to by hand: a host name or a literal
\* address, reached without a proxy; a literal address takes nRetries >= -1.
RetryDests == {d \in [isSet : {TRUE}, isDNS : BOOLEAN, proxy : {FALSE},
                      resolveOnly : {FALSE}, nRetries : RetryValues] :
                  d.nRetries < -1 => d.isDNS}

\* The handler with an embedder that starts every connection itself, and a
\* network on which no connect attempt succeeds.
RetryNext ==
    \/ \E l \in 1..MaxLimit : Start(l)
    \/ StartReturn
    \/ \E conn \in RetryDests : StartConnection(conn)
    \/ ConnectionFailureReturn
    \/ \E id \in ConnIDs : DnsOnResolveFailure(id)
    \/ \E id \in ConnIDs, n \in 1..MaxResolved, bevOk \in BOOLEAN : DnsOnResolveSuccess(id, n, bevOk)
    \/ \E id \in ConnIDs : DnsOnConnectFailure(id)
    \/ \E id \in ConnIDs : DirectOnConnectFailure(id, "CONNECT")
    \/ \E id \in ConnIDs, bevOk \in BOOLEAN : ReconnectTimer(id, bevOk)
    \/ Shutdown
    \/ ShutdownInt
    \/ ShutdownFailureReturn
    \/ ShutdownReturn

RetrySpec == Init /\ [][RetryNext]_vars

\* ----------------------------------------------------- refill cycles alone
\* The largest outgoing limit the embedder starts the handler with, and the
\* number of ConnIDs the handler hands out, when only refill cycles run.
MaxBurstLimit == 10
MaxBurstIndex == 10

\* A literal address reached without a proxy
LiteralDest == [isSet |-> TRUE, isDNS |-> FALSE, proxy |-> FALSE,
                resolveOnly |-> FALSE, nRetries |-> 1]

\* What the embedder returns from OnNeedOutgoingConnections: n literal addresses
Literals(n) == [i \in 1..n |-> LiteralDest]

\* The handler while its refill timer fires (every 500 ms) and no connect
\* attempt has ended yet.
BurstNext ==
    \/ \E l \in 1..MaxBurstLimit : Start(l)
    \/ StartReturn
    \/ \E n \in 0..g_max_simultaneous_connecting : RequestOutgoing(Literals(n), MaxBurstIndex)

BurstSpec == Init /\ [][BurstNext]_vars

\* ------------------------------------------------- start_connection alone
\* The handler with an embedder that only starts connections, to every kind
\* of destination, before any of their events is dispatched.
StartNext ==
    \/ \E l \in 1..MaxLimit : Start(l)
    \/ StartReturn
    \/ \E conn \in SetConns : StartConnection(conn)

StartSpec == Init /\ [][StartNext]_vars

\* ------------------------------------------- shutdown from a second thread
\* The handler with an embedder whose second thread calls Shutdown() at any
\* moment, also between two statements of the reactor thread that no lock
\* separates: after ShutdownInt has returned and before PumpEvents goes on.

\* ShutdownInt and its continuations, ending where ShutdownInt returns
ShutdownIntReturns == ShutdownIntTo(FALSE)
ShutdownDisconnectedReturnThenReturns == ShutdownDisconnectedReturnTo(FALSE)
ShutdownFailureReturnThenReturns == ShutdownFailureReturnTo(FALSE)

\* PumpEvents after event_base_loop returned with m_shutdown set:
\* m_event_base.free(), up to OnShutdown
PumpEventsAfterLoop ==
    /\ pc.at = "loopbreak"
    /\ m_event_base' = FALSE
    /\ pc' = At("shutdown", NoId, FALSE)
    /\ refill' = NoRefill
    /\ UNCHANGED <<handlerVars, m_outgoing_conn_limit, m_shutdown, m_request_event,
                   m_shutdown_event, localVars, histVars>>
    /\ AssertsHold

\* What m_shutdown_event.active() can do to a shutdown event in state ev.  An
\* event that exists becomes (or stays) active.  ShutdownInt has released the
\* event with m_shutdown_event.free() under no lock, and Shutdown() does not
\* test it as the callers of m_request_event.active() do: the call then uses
\* a released event, which is undefined: it does nothing, or the process
\* ends.
ActiveOutcomes(ev) ==
    IF ev \in {"idle", "active"} THEN {"active"} ELSE {"none", "aborted"}

\* CConnectionHandlerInt::Shutdown, from the second thread, between start()
\* and on_shutdown()
ShutdownFromThread(outcome) ==
    /\ pc.at \notin {"startup", "shutdown", "aborted"}
    /\ m_event_base
    /\ outcome \in ActiveOutcomes(m_shutdown_event)
    /\ IF outcome = "aborted"
       THEN /\ pc' = At("aborted", NoId, FALSE)
            /\ UNCHANGED m_shutdown_event
       ELSE /\ m_shutdown_event' = outcome
            /\ UNCHANGED pc
    /\ refill' = NoRefill
    /\ UNCHANGED <<handlerVars, m_outgoing_conn_limit, m_shutdown, m_event_base,
                   m_request_event, localVars, histVars>>
    /\ AssertsHold

ThreadNext ==
    \/ \E l \in 1..MaxLimit : Start(l)
    \/ StartReturn
    \/ \E conn \in SetConns : StartConnection(conn)
    \/ \E id \in ConnIDs : DirectOnConnectSuccess(id)
    \/ OutgoingConnectionReturn
    \/ ReadyForFirstSendReturn
    \/ \E outcome \in {"active", "none", "aborted"} : ShutdownFromThread(outcome)
    \/ ShutdownIntReturns
    \/ ShutdownDisconnectedReturnThenReturns
    \/ ShutdownFailureReturnThenReturns
    \/ PumpEventsAfterLoop
    \/ ShutdownReturn

ThreadSpec == Init /\ [][ThreadNext]_vars

\* The close armed on an established connection by CloseConnection runs: the
\* connection ends without reconnect.
ClosingEvent(id) ==
    /\ id \in DOMAIN m_connected
    /\ m_connected[id].st = "closing"
    /\ Disconnected(id, FALSE)

\* The embedder's callbacks return, and a close event that is pending each
\* time the reactor is idle is dispatched.
CloseFairSpec ==
    /\ Init /\ [][Next]_vars
    /\ WF_vars(CallbackReturns)
    /\ \A id \in ConnIDs : SF_vars(ClosingEvent(id))

\* ------------------------------------------------------------------- claims
OutgoingEntries(m) == {k \in DOMAIN m : m[k].kind # "incoming"}
IncomingEntries(m) == {k \in DOMAIN m : m[k].kind = "incoming"}
KeysOf == DOMAIN m_connecting \cup DOMAIN m_connected \cup DOMAIN m_dns_resolves \cup m_binds
ObjectsIn(m) == {m[k].obj : k \in DOMAIN m}
Times(log, name) == Cardinality({i \in 1..Len(log) : log[i] = name})
RetryCallbacks == FailureCallbacks \cup {"disconnected"}

\* C1 (as amended): the counts equal the numbers of outgoing and incoming
\* entries of m_connected in every state, except that during
\* OnOutgoingConnection and OnReadyForFirstSend the promoted connection is in
\* m_connected and not yet counted, and that during the OnDisconnected
\* callbacks of ShutdownInt m_connected is already empty while the counts
\* still hold the connections not yet notified.
CountsMatchBetweenHandlers ==
    IF pc.at \in {"outgoing_connection", "ready_for_first_send"}
    THEN /\ m_outgoing_conn_count = Cardinality(OutgoingEntries(m_connected)) - 1
         /\ m_incoming_conn_count = Cardinality(IncomingEntries(m_connected))
    ELSE IF pc.at = "sd_disconnected"
    THEN /\ m_connected = EmptyMap
         /\ m_outgoing_conn_count = Cardinality(OutgoingEntries(disconnecting) \ {pc.id})
         /\ m_incoming_conn_count = Cardinality(IncomingEntries(disconnecting) \ {pc.id})
    ELSE /\ m_outgoing_conn_count = Cardinality(OutgoingEntries(m_connected))
         /\ m_incoming_conn_count = Cardinality(IncomingEntries(m_connected))

\* C1 witness: OnDisconnected is delivered for an outgoing connection while
\* an incoming connection is connected.
CountsWitness ==
    /\ pc.at = "disconnected"
    /\ moved.kind # "incoming"
    /\ m_incoming_conn_count = 1

\* C1 as stated: the counts equal the numbers of entries in every state, the
\* callbacks included.
CountsMatchAlways ==
    /\ m_outgoing_conn_count = Cardinality(OutgoingEntries(m_connected))
    /\ m_incoming_conn_count = Cardinality(IncomingEntries(m_connected))

\* C2: no ConnID is a key of two maps, every entry is held under the id the
\* object carries, and no connection object is held twice: not under two
\* keys, not in two maps, and not in a map while a handler holds it in its
\* local unique_ptr or ShutdownInt in its local map.
OneMapPerConnection ==
    /\ DOMAIN m_connecting \cap DOMAIN m_connected = {}
    /\ DOMAIN m_connecting \cap DOMAIN m_dns_resolves = {}
    /\ DOMAIN m_connected \cap DOMAIN m_dns_resolves = {}
    /\ m_binds \cap (DOMAIN m_connecting \cup DOMAIN m_connected \cup DOMAIN m_dns_resolves) = {}
    /\ \A id \in DOMAIN m_connecting : m_connecting[id].m_id = id
    /\ \A id \in DOMAIN m_connected : m_connected[id].m_id = id
    /\ \A id \in DOMAIN m_dns_resolves : m_dns_resolves[id].m_id = id
    /\ Cardinality(ObjectsIn(m_connecting)) = Cardinality(DOMAIN m_connecting)
    /\ Cardinality(ObjectsIn(m_connected)) = Cardinality(DOMAIN m_connected)
    /\ Cardinality(ObjectsIn(m_dns_resolves)) = Cardinality(DOMAIN m_dns_resolves)
    /\ ObjectsIn(m_connecting) \cap ObjectsIn(m_connected) = {}
    /\ ObjectsIn(m_connecting) \cap ObjectsIn(m_dns_resolves) = {}
    /\ ObjectsIn(m_connected) \cap ObjectsIn(m_dns_resolves) = {}
    /\ ObjectsIn(disconnecting) \cap (ObjectsIn(m_connecting) \cup ObjectsIn(m_connected)) = {}
    /\ moved.kind # "none" =>
           moved.obj \notin ObjectsIn(m_connecting) \cup ObjectsIn(m_connected)
                              \cup ObjectsIn(m_dns_resolves)

\* C2 witness: a connection has just been promoted while a retried object
\* waits in m_connecting.
OneMapWitness ==
    /\ pc.at = "outgoing_connection"
    /\ \E id \in DOMAIN m_connecting : m_connecting[id].obj # id

\* The ids that are held: keys of the maps, and the id of the object a
\* handler holds in its local unique_ptr unless that id is being retired.
Held ==
    KeysOf \cup DOMAIN disconnecting
           \cup (IF moved.kind # "none" /\ ~pc.flag THEN {pc.id} ELSE {})

\* C3: m_connection_index never decreases; a key that enters a map without
\* having been held is one of the ids the step allocated (so it is greater
\* than every id handed out before); every held id is below
\* m_connection_index; an id whose retry has begun is not held and so never
\* becomes a key again.
ConnIDsFreshAndIncreasing ==
    [][/\ m_connection_index' >= m_connection_index
       /\ \A k \in KeysOf' \ Held : m_connection_index <= k /\ k < m_connection_index'
       /\ \A k \in Held' : k < m_connection_index']_vars

\* C3 witness: a listener id, and an object retried under its third id.
ConnIDsWitness ==
    /\ m_binds # {}
    /\ \E id \in DOMAIN m_connecting :
          /\ m_connecting[id].obj # id
          /\ cblog[m_connecting[id].obj] = <<"failure_T">>
          /\ m_connecting[id].st = "retry"
          /\ m_connection_index = id + 1

\* C4, for the refill cycles that start a connection: right after such a
\* cycle the established and the connecting outgoing connections together
\* are within the limit.
RefillKeepsLimit ==
    [][refill'.ran /\ DOMAIN m_connecting' # DOMAIN m_connecting =>
          m_outgoing_conn_count' + Cardinality(OutgoingEntries(m_connecting'))
              <= m_outgoing_conn_limit']_vars

\* C5 as stated: while OnShutdown is delivered the four maps are empty and
\* both counts are zero.
ShutdownLeavesNothing ==
    pc.at = "shutdown" =>
        /\ DOMAIN m_connected = {}
        /\ DOMAIN m_connecting = {}
        /\ DOMAIN m_dns_resolves = {}
        /\ m_binds = {}
        /\ m_outgoing_conn_count = 0
        /\ m_incoming_conn_count = 0

\* C6: when OnShutdown is delivered, every id that was in m_connected when
\* ShutdownInt began has received OnDisconnected(id, false) exactly once,
\* every outgoing id that was in m_connecting has received its failure
\* callback with retry false exactly once, and OnShutdown has not been
\* delivered before in this cycle; after OnShutdown returned no callback of
\* the shutdown sequence is delivered any more.
ShutdownDrain ==
    /\ pc.at = "shutdown" =>
          /\ sd.ran
          /\ sd.emitted = 0
          /\ \A id \in sd.established :
                /\ Times(cblog[id], "disconnected_F") = 1
                /\ Times(cblog[id], "disconnected_T") = 0
          /\ \A id \in sd.connecting :
                /\ Times(cblog[id], "failure_F") = 1
                /\ Times(cblog[id], "failure_T") = 0
    /\ pc.at \in {"sd_disconnected", "sd_failure"} =>
          /\ sd.ran /\ sd.emitted = 0
          /\ ~pc.flag
          /\ Times(cblog[pc.id], "disconnected_F") + Times(cblog[pc.id], "failure_F") = 1
    /\ sd.emitted = 1 => pc.at \notin {"sd_disconnected", "sd_failure", "shutdown"}

\* C6 witness: OnShutdown is delivered after a shutdown that found an
\* established connection and an outgoing connection in m_connecting.
ShutdownDrainWitness ==
    /\ pc.at = "shutdown"
    /\ sd.established # {}
    /\ sd.connecting # {}

\* C7 as stated: once m_shutdown is true no step adds a key to m_connected,
\* m_connecting, m_dns_resolves or m_binds.
NothingAddedAfterShutdown ==
    [][m_shutdown =>
          /\ DOMAIN m_connected' \subseteq DOMAIN m_connected
          /\ DOMAIN m_connecting' \subseteq DOMAIN m_connecting
          /\ DOMAIN m_dns_resolves' \subseteq DOMAIN m_dns_resolves
          /\ m_binds' \subseteq m_binds]_vars

IsConnectionCallback(name) == name \in {"outgoing_connection", "incoming_connection"}
IsDisconnectedCallback(name) == name \in {"disconnected_T", "disconnected_F"}

\* C8: in the callbacks delivered for an id, a connection callback is the
\* first one, OnReadyForFirstSend comes second and after
\* OnOutgoingConnection, OnDisconnected comes after a connection callback
\* and is the last one (on the shutdown path too), and a data callback is
\* delivered only between the connection callback and OnDisconnected.
CallbackOrder ==
    /\ \A id \in ConnIDs : \A i \in 1..Len(cblog[id]) :
          /\ IsConnectionCallback(cblog[id][i]) => i = 1
          /\ cblog[id][i] = "ready_for_first_send" =>
                i = 2 /\ cblog[id][1] = "outgoing_connection"
          /\ IsDisconnectedCallback(cblog[id][i]) =>
                /\ i = Len(cblog[id])
                /\ i > 1
                /\ IsConnectionCallback(cblog[id][1])
    /\ pc.at = "data" =>
          /\ cblog[pc.id] # <<>>
          /\ IsConnectionCallback(cblog[pc.id][1])
          /\ ~IsDisconnectedCallback(cblog[pc.id][Len(cblog[pc.id])])
          /\ cblog[pc.id][1] = "outgoing_connection" => Len(cblog[pc.id]) = 2

\* C8 witness: the shutdown sequence delivers OnDisconnected for an id that
\* has had OnOutgoingConnection and OnReadyForFirstSend.
CallbackOrderWitness ==
    /\ pc.at = "sd_disconnected"
    /\ cblog[pc.id] = <<"outgoing_connection", "ready_for_first_send", "disconnected_F">>

\* What a handler that returns from a callback announcing a retry has to
\* have done for the id and the object it announced it for.
RetriedUnderFreshId ==
    LET newId == m_connection_index IN
    /\ m_connection_index' = newId + 1
    /\ newId \notin KeysOf
    /\ cblog[newId] = <<>> /\ cblog'[newId] = <<>>
    /\ DOMAIN m_connecting' = DOMAIN m_connecting \cup {newId}
    /\ m_connecting'[newId] = [moved EXCEPT !.m_id = newId, !.st = "retry"]
    /\ pc.id \notin KeysOf'
    /\ cblog[pc.id] # <<>>
    /\ cblog[pc.id][Len(cblog[pc.id])] \in {"failure_T", "disconnected_T"}

\* C9 (as amended): when OnConnectionFailure or OnDisconnected has delivered
\* its callback with retry / reconnect true, the handler allocates the next
\* ConnID, puts the same object into m_connecting under it with m_id set to
\* it and its reconnect armed, and the old id is a key of no map; the
\* callback for the old id has been delivered and none for the new id.  (A
\* resolve-only lookup is re-armed under its own id instead.)
RetryKeepsObject ==
    [][pc.at \in RetryCallbacks /\ pc.flag /\ pc' = Idle => RetriedUnderFreshId]_vars

\* C9 witness: an object that was established under one id waits in
\* m_connecting under a later id, its reconnect armed.
RetryWitness ==
    \E id \in DOMAIN m_connecting :
        /\ m_connecting[id].st = "retry"
        /\ m_connecting[id].obj # id
        /\ cblog[id] = <<>>
        /\ \E old \in ConnIDs : old < id /\ "disconnected_T" \in {cblog[old][i] : i \in 1..Len(cblog[old])}

\* C9 as stated: every callback that announces a retry, OnDnsFailure of a
\* resolve-only lookup included, is followed by the re-insertion under a
\* fresh id.
EveryRetryTakesFreshId ==
    [][pc.at \in RetryCallbacks \cup {"ro_dns_failure"} /\ pc.flag /\ pc' = Idle =>
          m_connection_index' = m_connection_index + 1
          /\ m_connection_index \in DOMAIN m_connecting']_vars

\* The callback being delivered concerns the connection object o.
DeliveredFor(o) ==
    \/ pc.at = "outgoing_connection" /\ pc.id \in DOMAIN m_connected
          /\ m_connected[pc.id].obj = o
    \/ pc.at \in FailureCallbacks /\ moved.kind # "none" /\ moved.obj = o
    \/ pc.at = "sd_failure" /\ pc.id \in DOMAIN m_connecting
          /\ m_connecting[pc.id].obj = o
\* ... and it is a success or a failure that announces no retry.
SettledFor(o) ==
    \/ DeliveredFor(o) /\ ~pc.flag
    \/ pc.at \in {"dns_response", "ro_dns_failure"} /\ ~pc.flag /\ pc.id = o
\* A callback announcing a retry of o is being delivered.
RetryAnnounced(o) ==
    \/ pc.at \in RetryCallbacks /\ pc.flag /\ moved.kind # "none" /\ moved.obj = o
    \/ pc.at = "ro_dns_failure" /\ pc.flag /\ pc.id = o
\* The object o waits in m_connecting under an id it was retried under.
RetriedWaiting(o) ==
    \E id \in DOMAIN m_connecting : m_connecting[id].obj = o /\ id # o

FailureDelivered == pc.at = "idle" /\ pc'.at \in FailureCallbacks

\* Further addresses remain in the current resolution of the failed object.
AddressesRemain(c) == c.kind = "dns" /\ c.iter # c.nres

\* retries_remaining of the failing connection at the time of the failure
RetriesAtFailure == m_connecting[pc'.id].m_retries

\* C11 (amended): every failure callback carries will_retry = policy and not
\* shutdown, where the policy of a DNS connection is "retries_remaining is not
\* zero (positive, or any negative value), or further addresses remain", and
\* the policy of the other variants is "retries_remaining > 0 or
\* retries_remaining = -1"; a failure delivered by the shutdown drain carries
\* will_retry = false.
WillRetryFollowsPolicy ==
    [][/\ FailureDelivered =>
            pc'.flag = (/\ ~m_shutdown'
                        /\ IF moved'.kind = "dns"
                           THEN RetriesAtFailure # 0 \/ AddressesRemain(moved')
                           ELSE RetriesAtFailure > 0 \/ RetriesAtFailure = -1)
       /\ pc'.at = "sd_failure" => (m_shutdown' /\ ~pc'.flag)]_vars

\* A DNS connection with nRetries = -2 failed on the last address of its
\* resolution and is announced with will_retry = true.
WillRetryWitness ==
    /\ pc.at = "connection_failure" /\ pc.flag
    /\ moved.kind = "dns" /\ moved.m_retries = -2
    /\ moved.nres > 0 /\ moved.iter = moved.nres

\* C11 as stated: will_retry = (retries_remaining > 0 or retries_remaining = -1
\* or, for a DNS connection, further addresses remain) and not shutdown.
WillRetryAsStated ==
    [][FailureDelivered =>
          pc'.flag = (/\ ~m_shutdown'
                      /\ \/ RetriesAtFailure > 0
                         \/ RetriesAtFailure = -1
                         \/ AddressesRemain(moved'))]_vars

\* --- C12
\* C12: a DNS connection with nRetries = 1 whose lookups succeed and whose
\* connect attempts all fail has used its one retry when it fails again on the
\* only address of a later resolution, so that failure is reported with
\* will_retry = false.  (m_id > obj: the object was retried before; m_retries =
\* nRetries: no lookup of it failed.)
RetriesRunOut ==
    (/\ pc.at = "connection_failure"
     /\ moved.kind = "dns" /\ moved.nRetries = 1
     /\ moved.m_id > moved.obj
     /\ moved.nres = 1 /\ moved.iter = moved.nres)
    => ~pc.flag

\* --- C13
\* Exactly one ConnID has been handed out since the handler was constructed,
\* and there is no listener.
FirstConnIDOnly == m_connection_index = 1 /\ m_binds = {}

\* C13 (amended): the first connection of a handler that has no listeners
\* carries ConnID 0: while it is the only ConnID handed out,
\* on_outgoing_connection and on_ready_for_first_send are delivered for id 0,
\* in this order and once each, with outgoing_conn_count still 0, and once the
\* handler is idle again with the connection established, outgoing_conn_count
\* is 1.
FirstConnIDIsZero ==
    FirstConnIDOnly =>
        /\ pc.at = "outgoing_connection" =>
              /\ pc.id = 0 /\ 0 \in DOMAIN m_connected
              /\ cblog[0] = <<"outgoing_connection">>
              /\ m_outgoing_conn_count = 0
        /\ pc.at = "ready_for_first_send" =>
              /\ pc.id = 0 /\ 0 \in DOMAIN m_connected
              /\ cblog[0] = <<"outgoing_connection", "ready_for_first_send">>
              /\ m_outgoing_conn_count = 0
        /\ (pc = Idle /\ 0 \in DOMAIN m_connected) =>
              /\ cblog[0] = <<"outgoing_connection", "ready_for_first_send">>
              /\ m_outgoing_conn_count = 1

\* One literal-address destination was started, its connect succeeded and both
\* callbacks have returned.
FirstConnWitness ==
    /\ FirstConnIDOnly
    /\ pc = Idle
    /\ 0 \in DOMAIN m_connected
    /\ m_connected[0].kind = "direct" /\ m_connected[0].st = "established"
    /\ m_outgoing_conn_count = 1
    /\ m_connecting = EmptyMap /\ m_dns_resolves = EmptyMap

\* C13 as stated: the first connection's on_outgoing_connection carries
\* ConnID 1.
FirstConnIDIsOne ==
    (FirstConnIDOnly /\ pc.at = "outgoing_connection") => pc.id = 1

\* --- C14
\* C14: between Start and the shutdown sequence an iteration of PumpEvents
\* that ends with the handler idle returns true; the iteration in which
\* ShutdownInt ran returns false, and it delivers OnShutdown after the event
\* loop was freed and after every drain callback; every call after it returns
\* false; OnShutdown is delivered once per Start/Shutdown cycle.
PumpFollowsShutdown ==
    /\ (pc = Idle /\ m_event_base /\ ~sd.ran) =>
          PumpEvents(m_event_base, m_shutdown, m_shutdown)
    /\ pc.at = "shutdown" =>
          /\ ~PumpEvents(TRUE, FALSE, m_shutdown)
          /\ sd.ran /\ sd.emitted = 0
          /\ ~m_event_base
          /\ disconnecting = EmptyMap /\ m_connecting = EmptyMap
          /\ \A id \in sd.established : Times(cblog[id], "disconnected_F") = 1
          /\ \A id \in sd.connecting : Times(cblog[id], "failure_F") = 1
    /\ (pc = Idle /\ sd.ran) =>
          /\ ~PumpEvents(m_event_base, m_shutdown, m_shutdown)
          /\ sd.emitted = 1

\* PumpEvents has returned false after a shutdown that drained an established
\* and a connecting connection.
PumpWitness ==
    /\ pc = Idle /\ sd.ran /\ sd.emitted = 1
    /\ sd.established # {} /\ sd.connecting # {}
    /\ ~PumpEvents(m_event_base, m_shutdown, m_shutdown)

\* --- C15
\* A call of the embedder that names a connection by its id
CommandFor(id) ==
    \/ \E ret \in BOOLEAN : Send(id, ret)
    \/ \E immediately \in BOOLEAN : CloseConnection(id, immediately)
    \/ PauseRecv(id)
    \/ UnpauseRecv(id)
    \/ SetRateLimit(id)

\* C15: for an id that is not a key of connected, send can only return false,
\* and send, close, pause_recv, unpause_recv and set_rate_limit leave every
\* map, both counts and the ConnID counter as they are and deliver no callback.
UnknownIdIsNoOp ==
    [][\A id \in ConnIDs :
          id \notin DOMAIN m_connected =>
              /\ SendResults(id) = {FALSE}
              /\ CommandFor(id) =>
                    UNCHANGED <<handlerVars, loopVars, localVars, pc, cblog>>]_vars

\* Commands can name an id that is still connecting, an id of a listener and
\* an id that was never handed out, while another connection is established.
UnknownIdWitness ==
    /\ pc = Idle /\ m_event_base
    /\ DOMAIN m_connected # {} /\ DOMAIN m_connecting # {}
    /\ \E id \in ConnIDs : id >= m_connection_index
    /\ \A id \in DOMAIN m_connecting : SendResults(id) = {FALSE}

\* --- C16
\* close was called for the established connection id and its disconnect has
\* not run yet.
CloseAsked(id) == id \in DOMAIN m_connected /\ m_connected[id].st = "closing"

\* on_disconnected(id, reconnect = false) is being delivered.
DisconnectedFalse(id) ==
    pc.at \in {"disconnected", "sd_disconnected"} /\ pc.id = id /\ ~pc.flag

ConnectingAtMostEight ==
    Cardinality(OutgoingEntries(m_connecting)) <= g_max_simultaneous_connecting

\* --- C18
\* C18: a refill cycle that calls OnNeedOutgoingConnections passes a need
\* between 1 and g_max_simultaneous_connecting (8).
NeedBetweenOneAndEight ==
    (refill.ran /\ refill.asked) => refill.need \in 1..g_max_simultaneous_connecting

\* --- C19
\* The variant the statement selects for a destination
VariantFor(conn) ==
    IF conn.proxy THEN "proxy"
    ELSE IF conn.isDNS /\ conn.resolveOnly THEN "resolveonly"
    ELSE IF conn.isDNS THEN "dns" ELSE "direct"

\* After the step the map m holds, under id, a new object of the kind that
\* waits for the outcome of its connect() or resolve().
CreatedIn(m, id, kind) ==
    /\ id \in DOMAIN m
    /\ m[id].kind = kind /\ m[id].obj = id
    /\ m[id].st \in {"resolving", "connecting"}

\* C19: every start_connection(d) takes one ConnID and creates one entity
\* under it, of the variant selected for d, with its connect() called: a
\* ResolveOnly in m_dns_resolves, any other variant in m_connecting.
StartCreatesOneEntity ==
    [][\A conn \in SetConns :
          StartConnection(conn) =>
              LET id == m_connection_index IN
              /\ m_connection_index' = id + 1
              /\ IF VariantFor(conn) = "resolveonly"
                 THEN /\ CreatedIn(m_dns_resolves', id, "resolveonly")
                      /\ m_connecting' = m_connecting
                 ELSE /\ CreatedIn(m_connecting', id, VariantFor(conn))
                      /\ m_dns_resolves' = m_dns_resolves]_vars

\* --- C20
\* C20 (amended): a listener enters m_binds only by a bind() that succeeds
\* (and returns true), under the ConnID the call took; a bind() that fails
\* returns false, records nothing and delivers no callback; a listen failure
\* of a recorded listener delivers on_bind_failure while the listener is still
\* in m_binds, and when the callback has returned the listener is gone.
BindRecordsOnSuccess ==
    [][/\ Bind(FALSE) => (m_binds' = m_binds /\ pc' = pc)
       /\ Bind(TRUE) => (m_binds' = m_binds \cup {m_connection_index} /\ pc' = pc)
       /\ (m_binds' \ m_binds # {}) =>
             (Bind(TRUE) /\ m_binds' \ m_binds = {m_connection_index})
       /\ (pc.at # "bind_failure" /\ pc'.at = "bind_failure") =>
             (pc'.id \in m_binds /\ m_binds' = m_binds)
       /\ (pc.at = "bind_failure" /\ pc' # pc) =>
             (pc' = Idle /\ m_binds' = m_binds \ {pc.id})
       /\ (m_binds \ m_binds' # {} /\ ~m_shutdown') => pc.at = "bind_failure"]_vars

\* on_bind_failure is being delivered for one of two recorded listeners.
BindFailureWitness ==
    /\ pc.at = "bind_failure" /\ pc.id \in m_binds
    /\ Cardinality(m_binds) = 2

\* C20 as stated: a bind() that fails delivers on_bind_failure.
FailedBindIsAnnounced ==
    [][Bind(FALSE) => pc'.at = "bind_failure"]_vars

\* --- C21
\* The embedder declined the incoming connection id: its only callback was
\* on_incoming_connection, it is in no map (nor in the local map of
\* ShutdownInt) and no callback carries it.
Declined(id) ==
    /\ cblog[id] = <<"incoming_connection">>
    /\ id \notin KeysOf
    /\ id \notin DOMAIN disconnecting
    /\ pc.id # id

\* C21: on_incoming_connection(id) is asked once per accepted socket, with the
\* connection already out of connecting; when the embedder declines, the id
\* enters no map, incoming_conn_count stays as it is and no later callback
\* carries the id; when it accepts, the connection enters connected under the
\* id and incoming_conn_count grows by exactly one.
IncomingAskedOnce ==
    /\ [](\A id \in ConnIDs :
            /\ Times(cblog[id], "incoming_connection") <= 1
            /\ (pc.at = "incoming_connection" /\ pc.id = id) =>
                  (id \notin KeysOf /\ cblog[id] = <<"incoming_connection">>))
    /\ [][\A id \in ConnIDs :
             /\ (pc.at = "incoming_connection" /\ pc.id = id /\ pc' # pc) =>
                   /\ pc' = Idle
                   /\ id \notin DOMAIN m_connecting'
                   /\ m_outgoing_conn_count' = m_outgoing_conn_count
                   /\ IF id \in DOMAIN m_connected'
                      THEN /\ m_connected'[id].kind = "incoming"
                           /\ m_connected'[id].obj = id
                           /\ m_incoming_conn_count' = m_incoming_conn_count + 1
                      ELSE /\ m_incoming_conn_count' = m_incoming_conn_count
                           /\ Declined(id)'
             /\ Declined(id) => (Declined(id)' \/ cblog'[id] = <<>>)]_vars

\* One incoming connection was declined and another one accepted.
IncomingWitness ==
    /\ pc = Idle
    /\ m_incoming_conn_count = 1
    /\ \E a, d \in ConnIDs :
          /\ Declined(d)
          /\ a \in DOMAIN m_connected /\ m_connected[a].kind = "incoming"
          /\ cblog[a] = <<"incoming_connection">>

\* --- C22
\* The callbacks of a ResolveOnly lookup
LookupCallbacks == {"dns_response", "ro_dns_failure"}

\* C22: a ResolveOnly lookup is held in m_dns_resolves under the id it was
\* created with and in no other map; it leaves m_dns_resolves only when
\* on_dns_response has returned, when on_dns_failure(will_retry = false) has
\* returned, or in the shutdown sequence; after on_dns_failure it is still
\* there, waiting for its next answer, exactly when will_retry was true, and
\* no ConnID is taken for it; its callbacks change neither m_connecting nor
\* m_connected nor the connection counts.
LookupStaysUntilItEnds ==
    /\ [](/\ \A id \in DOMAIN m_dns_resolves :
                /\ m_dns_resolves[id].kind = "resolveonly"
                /\ m_dns_resolves[id].obj = id /\ m_dns_resolves[id].m_id = id
                /\ m_dns_resolves[id].st = "resolving"
          /\ \A id \in DOMAIN m_connecting : m_connecting[id].kind # "resolveonly"
          /\ \A id \in DOMAIN m_connected : m_connected[id].kind # "resolveonly"
          /\ pc.at \in LookupCallbacks => pc.id \in DOMAIN m_dns_resolves)
    /\ [][\A id \in ConnIDs :
             /\ (id \in DOMAIN m_dns_resolves /\ id \notin DOMAIN m_dns_resolves') =>
                   \/ pc.at = "dns_response" /\ pc.id = id
                   \/ pc.at = "ro_dns_failure" /\ pc.id = id /\ ~pc.flag
                   \/ m_shutdown'
             /\ (pc.at = "dns_response" /\ pc.id = id /\ pc' # pc) =>
                   (pc' = Idle /\ id \notin DOMAIN m_dns_resolves')
             /\ (pc.at = "ro_dns_failure" /\ pc.id = id /\ pc' # pc) =>
                   /\ pc' = Idle
                   /\ pc.flag <=> id \in DOMAIN m_dns_resolves'
                   /\ m_connection_index' = m_connection_index
             /\ (pc.at \in LookupCallbacks \/ pc'.at \in LookupCallbacks) /\ pc' # pc =>
                   UNCHANGED <<m_connecting, m_connected, m_outgoing_conn_count,
                               m_incoming_conn_count>>]_vars

\* A lookup failed with will_retry = true, stayed under its id and is now
\* failing for good.
LookupWitness ==
    /\ pc.at = "ro_dns_failure" /\ ~pc.flag /\ ~m_shutdown
    /\ cblog[pc.id] = <<"dns_failure_T", "dns_failure_F">>
    /\ pc.id \in DOMAIN m_dns_resolves

\* --- C23
\* The step that reports the failed lookup of a DNS connection
ResolveFailureDelivered ==
    /\ pc.at = "idle" /\ pc'.at = "dns_failure"
    /\ moved'.kind = "dns"

\* The counter of every DNS connection stays within its configured range.
RetriesInRange(c) ==
    c.kind = "dns" =>
        IF c.nRetries >= 0 THEN c.m_retries \in 0..c.nRetries
        ELSE c.m_retries = c.nRetries

\* C23 (amended): on a resolution failure of a DNS connection the retry flag
\* is "retries_remaining is not zero" evaluated before the decrement;
\* retries_remaining is decremented by exactly one when it is positive and is
\* left as it is when it is zero or negative (-1 and every other negative
\* value mean retry for ever: flag true, no decrement); it never goes below
\* zero for a non-negative nRetries.
ResolveFailureCountsDown ==
    /\ [](/\ \A id \in DOMAIN m_connecting : RetriesInRange(m_connecting[id])
          /\ \A id \in DOMAIN m_connected : RetriesInRange(m_connected[id])
          /\ moved # NoConn => RetriesInRange(moved))
    /\ [][ResolveFailureDelivered =>
             /\ pc'.flag = (RetriesAtFailure # 0)
             /\ moved'.m_retries = IF RetriesAtFailure > 0 THEN RetriesAtFailure - 1
                                   ELSE RetriesAtFailure]_vars

\* A DNS connection with nRetries = 2 used its last retry on a failed lookup.
ResolveFailureWitness ==
    /\ pc.at = "dns_failure" /\ pc.flag
    /\ moved.kind = "dns" /\ moved.nRetries = 2 /\ moved.m_retries = 0

\* C23 as stated: the flag is retries_remaining > 0 evaluated before the
\* decrement, and the counter is decremented by one exactly when the flag is
\* true.
ResolveFlagIsPositiveCount ==
    [][ResolveFailureDelivered =>
          /\ pc'.flag = (RetriesAtFailure > 0)
          /\ (moved'.m_retries = RetriesAtFailure - 1) <=> pc'.flag]_vars

\* --- C24
\* C24: a DNS connection that waits for its reconnect timer satisfies the
\* asserts of the Connect() the timer will call: with the cursor inside the
\* list those of ConnectResolved, with the cursor at the end those of
\* DoResolve (no request, no stream, resolved list empty).
ReconnectMeetsAsserts ==
    \A id \in DOMAIN m_connecting :
        (m_connecting[id].kind = "dns" /\ m_connecting[id].st = "retry") =>
            ConnectAsserts(m_connecting[id])

\* --- C25
\* C25: the map-membership asserts of the handlers hold.  The step that
\* runs OnDisconnected(id) starts with id a key of m_connected, the step that
\* runs OnConnectionFailure(id) or OnOutgoingConnected(id) with id a key of
\* m_connecting, the step that runs OnResolveFailure(id) with id a key of
\* m_dns_resolves, each holding the object that carries this id;
\* OnIncomingConnected(id) runs for the id OnIncomingConnection has just
\* inserted; and while the embedder is in the OnDnsFailure callback of a
\* lookup its entry, which the handler looks up afterwards, stays.
HandlerStarts(names) == pc.at = "idle" /\ pc'.at \in names
HeldUnder(m, id) == id \in DOMAIN m /\ m[id].m_id = id
TornDownOnce ==
    pc.at = "shutdown" =>
        /\ \A id \in sd.established : Times(cblog[id], "disconnected_F") = 1
        /\ m_outgoing_conn_count = 0 /\ m_incoming_conn_count = 0
ShutdownIsIdempotent ==
    /\ []TornDownOnce
    /\ [][pc.at = "loopbreak" => pc'.at \in {"loopbreak", "shutdown"}]_vars

====
